---- MODULE Spec2Model ----
(***************************************************************************)
(* mdv: multi-workspace markdown preview server (src/src/main.rs).         *)
(*                                                                         *)
(* The model covers the workspace registry, the per-workspace watcher      *)
(* threads, the two tokio broadcast channels (reload_tx, ws_tx) with their *)
(* SSE and WebSocket consumers, and validate_path.                         *)
(*                                                                         *)
(* Paths are sequences of components; <<>> is "/".  HTTP handlers that     *)
(* await nothing between two points are one step; api_register is split at *)
(* its one await (the write lock), api_active at its two sends.            *)
(***************************************************************************)
EXTENDS Integers, Sequences, FiniteSets, TLC

VARIABLES
    fs,          \* the symbolic links of the file system: link path -> target
    workspaces,  \* AppStateInner.workspaces: id -> Workspace
    threads,     \* every watcher thread spawned so far, in spawn order
    reg,         \* api_register handlers: idle, or waiting for the write lock
    resp,        \* the last HTTP response sent
    reload_tx,   \* ReloadBus: every value stored by reload_tx.send, in order
    sse,         \* the /_reload streams (handle_reload), in connect order
    ws_tx,       \* CommandBus: every value stored by ws_tx.send, in order
    wsconn,      \* the /ws connections (handle_ws_connection), in connect order
    active,      \* api_active handlers: idle, or between the two sends
    resolutions, \* history: <<focus position, navigate position>> per resolution
    issued,      \* history: <<canonical root, id>> per successful register
    inflight     \* view, raw, status, root and unregister handlers, step by step

vars == <<fs, workspaces, threads, reg, resp, reload_tx, sse, ws_tx, wsconn,
          active, resolutions, issued, inflight>>

-----------------------------------------------------------------------------
(* Bounds of the model.                                                    *)

\* watcher threads ever spawned
MaxThreads == 2
\* concurrent api_register handlers
MaxRegHandlers == 2
\* values ever stored on ReloadBus
MaxReloadLog == 3
\* values ever stored on CommandBus
MaxCmdLog == 3
\* /_reload streams ever opened
MaxSse == 2
\* /ws connections ever opened
MaxWs == 2
\* concurrent api_active handlers
MaxActiveHandlers == 1
\* concurrent view, raw, status, root and unregister handlers
MaxInflight == 2
\* Slots of each broadcast channel.  main.rs:747-748 creates both with 16;
\* the model uses a shorter ring so that a reader can fall a full ring behind
\* within MaxReloadLog / MaxCmdLog sends.
Capacity == 2

-----------------------------------------------------------------------------
(* The file system.                                                        *)

Dirs == { <<>>, <<"docs">>, <<"docs", "sub">>, <<"etc">>, <<"x">>,
          <<"x", "docs">> }

Files == { <<"docs", "a.md">>, <<"docs", "sub", "b.md">>,
           <<"docs", "notes.txt">>, <<"etc", "passwd">> }

Links == { <<"docs", "lnk">>, <<"w">> }

\* what each symbolic link may point to (<<"gone">> does not exist)
LinkTargets(l) ==
    IF l = <<"w">> THEN { <<"docs">>, <<"etc">> }
    ELSE { <<"etc">>, <<"docs", "sub">>, <<"etc", "passwd">>, <<"gone">> }

FsDefault == [l \in Links |-> IF l = <<"w">> THEN <<"docs">> ELSE <<"etc">>]

None == [some |-> FALSE, path |-> <<>>]
Some(p) == [some |-> TRUE, path |-> p]

Parent(p) == IF p = <<>> THEN <<>> ELSE SubSeq(p, 1, Len(p) - 1)

\* std::fs::canonicalize from `cur` (already canonical) through the
\* components `rest`: follows links, applies "..", fails on a missing entry
\* or on a file used as a directory.
RECURSIVE Resolve(_, _, _)
Resolve(f, cur, rest) ==
    IF rest = <<>> THEN Some(cur)
    ELSE LET c == Head(rest)
             r == Tail(rest)
             p == Append(cur, c)
         IN  IF c = ".." THEN Resolve(f, Parent(cur), r)
             ELSE IF p \in Links THEN Resolve(f, <<>>, f[p] \o r)
             ELSE IF p \in Dirs THEN Resolve(f, p, r)
             ELSE IF p \in Files /\ r = <<>> THEN Some(p)
             ELSE None

canonicalize(f, p) == Resolve(f, <<>>, p)

\* a test that accepts any existing entry, directory or not
exists(p) == p \in Dirs \cup Files

is_dir(p) == p \in Dirs
is_file(p) == p \in Files

\* Path::starts_with: component-wise prefix
starts_with(p, base) ==
    /\ Len(base) <= Len(p)
    /\ SubSeq(p, 1, Len(base)) = base

\* the path as it is, prefix included
whole_path(p, base) == p

\* Path::strip_prefix
strip_prefix(p, base) == SubSeq(p, Len(base) + 1, Len(p))

\* Path::file_name, with the unwrap_or("workspace") of its two callers
file_name(p) == IF p = <<>> THEN "workspace" ELSE p[Len(p)]

\* Path::extension of the last component
extension(p) ==
    IF p = <<>> THEN ""
    ELSE IF p[Len(p)] \in {"a.md", "b.md"} THEN "md"
    ELSE IF p[Len(p)] = "notes.txt" THEN "txt"
    ELSE ""

-----------------------------------------------------------------------------
(* validate_path                                                           *)

\* A requested path: `slashes` leading '/' characters, then the components.
ReqPaths ==
    { [slashes |-> 0, segs |-> <<>>],
      [slashes |-> 0, segs |-> <<"a.md">>],
      [slashes |-> 0, segs |-> <<"sub", "b.md">>],
      [slashes |-> 0, segs |-> <<"sub", "..", "a.md">>],
      [slashes |-> 0, segs |-> <<"..", "etc", "passwd">>],
      [slashes |-> 0, segs |-> <<"..", "..", "etc", "passwd">>],
      [slashes |-> 0, segs |-> <<"lnk">>],
      [slashes |-> 0, segs |-> <<"lnk", "passwd">>],
      [slashes |-> 0, segs |-> <<"lnk", "b.md">>],
      [slashes |-> 1, segs |-> <<"etc", "passwd">>],
      [slashes |-> 2, segs |-> <<"etc", "passwd">>],
      [slashes |-> 0, segs |-> <<"nope">>] }

\* str::trim_start_matches('/')
trim_start_matches(req) == [req EXCEPT !.slashes = 0]

\* PathBuf::join: an absolute argument replaces the base
join(root, req) == IF req.slashes > 0 THEN req.segs ELSE root \o req.segs

validate_path_unchecked(f, root, requested_path) ==
    canonicalize(f, join(root, trim_start_matches(requested_path)))

validate_path(f, root, requested_path) ==
    LET cleaned_path == trim_start_matches(requested_path)
        full_path == join(root, cleaned_path)
        canonical == canonicalize(f, full_path)
    IN  IF canonical.some
        THEN LET root_canonical == canonicalize(f, root)
             IN  IF ~root_canonical.some THEN None
                 ELSE IF starts_with(canonical.path, root_canonical.path)
                      THEN Some(canonical.path)
                      ELSE None
        ELSE None

-----------------------------------------------------------------------------
(* generate_workspace_id                                                   *)

\* DefaultHasher over the path, masked with 0xFFFF.  The hash is a fixed
\* function of the path; the table gives the two directories named "docs"
\* the same 16 bits (65536 values cannot separate all paths).
hash16(p) ==
    IF p = <<"docs">> THEN 1
    ELSE IF p = <<"x", "docs">> THEN 1
    ELSE IF p = <<"docs", "sub">> THEN 2
    ELSE IF p = <<"etc">> THEN 3
    ELSE IF p = <<"x">> THEN 4
    ELSE 5

\* format!("{}-{:x}", name, hash & 0xFFFF)
generate_workspace_id(p) == <<file_name(p), hash16(p) % 65536>>

\* the ids of the directories that the model registers
AllIds ==
    { generate_workspace_id(d) :
        d \in { <<"docs">>, <<"x", "docs">>, <<"docs", "sub">> } }

-----------------------------------------------------------------------------
(* Responses and the registry.                                             *)

Resp(op, status, id, path, input) ==
    [op |-> op, status |-> status, id |-> id, path |-> path, input |-> input]

NoResp == Resp("none", 0, <<>>, <<>>, <<>>)

RegHandlers == 1 .. MaxRegHandlers

RegIdle ==
    [pc |-> "idle", canonical_path |-> <<>>,
     workspace_id |-> <<>>, workspace_name |-> ""]

\* paths posted to /api/workspace/register
RegisterInputs ==
    { <<"docs">>, <<"w">>, <<"x", "docs">>, <<"docs", "sub">>,
      <<"docs", "sub", "..">>, <<"docs", "a.md">>, <<"gone">> }

\* ids asked of DELETE /api/workspace/{id}, /view, /_reload
RequestIds == AllIds \cup { <<"docs", 0>> }

\* HashMap::contains_key, negated (main.rs:288)
always_absent(ws, id) == TRUE

absent(ws, id) == id \notin DOMAIN ws

\* HashMap::insert
insert(ws, id, w) ==
    [x \in DOMAIN ws \cup {id} |-> IF x = id THEN w ELSE ws[x]]

\* HashMap::remove as a lookup by display name instead of by key
remove_by_name(ws, id) ==
    [x \in {y \in DOMAIN ws : y[1] # id[1]} |-> ws[x]]

\* HashMap::remove: the map without the key
remove(ws, id) == [x \in DOMAIN ws \ {id} |-> ws[x]]

\* the receivers alive on each bus (Sender::receiver_count)
ReloadReceivers == 1 .. Len(sse)
CmdReceivers == {c \in 1 .. Len(wsconn) : wsconn[c].send_task = "running"}

\* the guards of state.inner that are held: by the handlers of `inflight`,
\* by api_active between its two sends, by api_register once it has the lock
ReadGuards ==
    Cardinality({k \in DOMAIN inflight : inflight[k].guard = "read"})
    + Cardinality({h \in DOMAIN active : active[h].pc # "idle"})

WriteGuards ==
    Cardinality({k \in DOMAIN inflight : inflight[k].guard = "write"})
    + Cardinality({h \in DOMAIN reg : reg[h].pc = "held"})

\* a lock that hands out the write guard whoever holds it
write_unguarded == TRUE

\* RwLock::write is granted only while no guard is held
write_granted ==
    /\ \A k \in DOMAIN inflight : inflight[k].guard = "none"
    /\ \A h \in DOMAIN active : active[h].pc = "idle"
    /\ \A h \in DOMAIN reg : reg[h].pc # "held"

\* RwLock::read is granted only while no write guard is held (tokio also
\* queues a reader behind a waiting writer, which removes behaviours only)
read_granted ==
    /\ \A k \in DOMAIN inflight : inflight[k].guard # "write"
    /\ \A h \in DOMAIN reg : reg[h].pc # "held"

\* drop(inner) that leaves the guard where it is
keep(guard) == guard

\* drop(inner) (main.rs:446, 628)
release(guard) == "none"

-----------------------------------------------------------------------------
(* api_register                                                            *)

\* main.rs:270-285: canonicalize, is_dir, id and name; then await the lock
api_register_begin(h, p) ==
    /\ reg[h].pc = "idle"
    /\ LET c == canonicalize(fs, p)
       IN  IF ~c.some
           THEN /\ resp' = Resp("register", 400, <<>>, <<>>, <<>>)
                /\ UNCHANGED reg
           ELSE IF ~is_dir(c.path)
           THEN /\ resp' = Resp("register", 400, <<>>, <<>>, <<>>)
                /\ UNCHANGED reg
           ELSE /\ reg' = [reg EXCEPT ![h] =
                              [pc |-> "lock",
                               canonical_path |-> c.path,
                               workspace_id |-> generate_workspace_id(c.path),
                               workspace_name |-> file_name(c.path)]]
                /\ UNCHANGED resp
    /\ UNCHANGED <<fs, workspaces, threads, reload_tx, sse, ws_tx, wsconn,
                   active, resolutions, issued,
                   inflight>>

\* main.rs:288-335: under the write guard, spawn the watcher and insert
\* unless the id is present; respond
register_critical(h) ==
    /\ LET id == reg[h].workspace_id
       IN  /\ IF absent(workspaces, id)
              THEN /\ Len(threads) < MaxThreads
                   /\ threads' = Append(threads,
                          [watch_id |-> id,
                           watch_dir |-> reg[h].canonical_path,
                           pc |-> "init"])
                   /\ workspaces' = insert(workspaces, id,
                          [id |-> id,
                           root_dir |-> reg[h].canonical_path,
                           name |-> reg[h].workspace_name,
                           watcher_handle |-> Len(threads) + 1])
              ELSE UNCHANGED <<threads, workspaces>>
           /\ resp' = Resp("register", 200, id, <<"view", id>>, <<>>)
           /\ issued' = issued \cup {<<reg[h].canonical_path, id>>}
    /\ reg' = [reg EXCEPT ![h] = RegIdle]
    /\ UNCHANGED <<fs, reload_tx, sse, ws_tx, wsconn, active, resolutions,
                   inflight>>

\* main.rs:286-335 as one step: the lock is taken, used and released
api_register_locked(h) ==
    /\ reg[h].pc = "lock"
    /\ write_granted
    /\ register_critical(h)

\* main.rs:286: the write guard is granted
api_register_acquire(h) ==
    /\ reg[h].pc = "lock"
    /\ write_granted
    /\ reg' = [reg EXCEPT ![h].pc = "held"]
    /\ UNCHANGED <<fs, workspaces, threads, resp, reload_tx, sse, ws_tx,
                   wsconn, active, resolutions, issued, inflight>>

\* main.rs:288-335: the critical section, then the guard is dropped
api_register_commit(h) ==
    /\ reg[h].pc = "held"
    /\ register_critical(h)

-----------------------------------------------------------------------------
(* api_unregister                                                          *)

\* main.rs:338-351.  Dropping the JoinHandle detaches the thread: `threads`
\* is left as it is.
unregister_critical(id) ==
    IF id \in DOMAIN workspaces
    THEN /\ workspaces' = remove(workspaces, id)
         /\ resp' = Resp("unregister", 200, id, <<>>, <<>>)
    ELSE /\ workspaces' = remove(workspaces, id)
         /\ resp' = Resp("unregister", 404, id, <<>>, <<>>)

api_unregister(id) ==
    /\ write_granted
    /\ unregister_critical(id)
    /\ UNCHANGED <<fs, threads, reg, reload_tx, sse, ws_tx, wsconn, active,
                   resolutions, issued,
                   inflight>>

-----------------------------------------------------------------------------
(* handle_view_path_internal                                               *)

\* main.rs:435-460: lookup and validate_path under the read lock, then render
handle_view_path_internal(id, path) ==
    /\ read_granted
    /\ IF id \notin DOMAIN workspaces
       THEN resp' = Resp("view", 404, id, <<>>, path)
       ELSE LET full_path == validate_path(fs, workspaces[id].root_dir, path)
            IN  IF ~full_path.some
                THEN resp' = Resp("view", 404, id, <<>>, path)
                ELSE IF is_dir(full_path.path) \/ is_file(full_path.path)
                THEN resp' = Resp("view", 200, id, full_path.path, path)
                ELSE resp' = Resp("view", 404, id, <<>>, path)
    /\ UNCHANGED <<fs, workspaces, threads, reg, reload_tx, sse, ws_tx,
                   wsconn, active, resolutions, issued,
                   inflight>>

\* the environment re-points a symbolic link
Retarget(l, t) ==
    /\ fs[l] # t
    /\ fs' = [fs EXCEPT ![l] = t]
    /\ UNCHANGED <<workspaces, threads, reg, resp, reload_tx, sse, ws_tx,
                   wsconn, active, resolutions, issued,
                   inflight>>

-----------------------------------------------------------------------------
(* Initial states.                                                         *)

ActiveHandlers == 1 .. MaxActiveHandlers

Inflight == 1 .. MaxInflight

\* a handler and the RwLock guard it holds: "none", "read" or "write"
InflightIdle ==
    [op |-> "none", pc |-> "idle", guard |-> "none", workspace_id |-> <<>>,
     path |-> <<>>, full_path |-> <<>>]

ActiveIdle ==
    [pc |-> "idle", input |-> <<>>, id |-> <<>>, relative |-> <<>>,
     first_at |-> 0]

InitRest ==
    /\ workspaces = << >>
    /\ threads = << >>
    /\ reg = [h \in RegHandlers |-> RegIdle]
    /\ resp = NoResp
    /\ reload_tx = << >>
    /\ sse = << >>
    /\ ws_tx = << >>
    /\ wsconn = << >>
    /\ active = [h \in ActiveHandlers |-> ActiveIdle]
    /\ resolutions = {}
    /\ issued = {}
    /\ inflight = [k \in Inflight |-> InflightIdle]

Init == fs = FsDefault /\ InitRest

\* any arrangement of the symbolic links
InitPath ==
    /\ fs \in {f \in [Links -> Dirs \cup Files \cup {<<"gone">>}] :
                 \A l \in Links : f[l] \in LinkTargets(l)}
    /\ InitRest

-----------------------------------------------------------------------------
(* The handlers of the registry lock, one step per guard they take or drop *)
(* (handle_view_path_internal and api_unregister above are the same code   *)
(* taken as one step).                                                     *)

ReadOps == {"view", "raw", "status", "root"}

\* main.rs:436, 620, 393, 701: state.inner.read().await is granted
read_acquire(k, op, id, path) ==
    /\ inflight[k].pc = "idle"
    /\ read_granted
    /\ inflight' = [inflight EXCEPT ![k] =
          [op |-> op, pc |-> "locked", guard |-> "read",
           workspace_id |-> IF op \in {"view", "raw"} THEN id ELSE <<>>,
           path |-> IF op \in {"view", "raw"} THEN path ELSE <<>>,
           full_path |-> <<>>]]
    /\ UNCHANGED <<fs, workspaces, threads, reg, resp, reload_tx, sse, ws_tx,
                   wsconn, active, resolutions, issued>>

\* main.rs:437-446 and 621-628: lookup and validate_path under the guard; an
\* early return drops the guard with the response, otherwise full_path is
\* kept and the guard is dropped
view_lookup(k) ==
    /\ inflight[k].op \in {"view", "raw"}
    /\ inflight[k].pc = "locked"
    /\ LET id == inflight[k].workspace_id
           path == inflight[k].path
       IN  IF id \notin DOMAIN workspaces
           THEN /\ resp' = Resp(inflight[k].op, 404, id, <<>>, path)
                /\ inflight' = [inflight EXCEPT ![k] = InflightIdle]
           ELSE LET full_path ==
                        validate_path(fs, workspaces[id].root_dir, path)
                IN  IF ~full_path.some
                    THEN /\ resp' = Resp(inflight[k].op, 404, id, <<>>, path)
                         /\ inflight' = [inflight EXCEPT ![k] = InflightIdle]
                    ELSE /\ inflight' = [inflight EXCEPT
                                ![k].pc = "io",
                                ![k].guard = release(@),
                                ![k].full_path = full_path.path]
                         /\ UNCHANGED resp
    /\ UNCHANGED <<fs, workspaces, threads, reg, reload_tx, sse, ws_tx,
                   wsconn, active, resolutions, issued>>

\* main.rs:448-459 and 630-634: the directory listing or the file contents
\* are read from full_path; whatever guard is left is dropped at the return
view_io(k) ==
    /\ inflight[k].pc = "io"
    /\ LET fp == inflight[k].full_path
           found == IF inflight[k].op = "view"
                    THEN is_dir(fp) \/ is_file(fp)
                    ELSE is_file(fp)
       IN  resp' = Resp(inflight[k].op, IF found THEN 200 ELSE 404,
                        inflight[k].workspace_id,
                        IF found THEN fp ELSE <<>>, inflight[k].path)
    /\ inflight' = [inflight EXCEPT ![k] = InflightIdle]
    /\ UNCHANGED <<fs, workspaces, threads, reg, reload_tx, sse, ws_tx,
                   wsconn, active, resolutions, issued>>

\* main.rs:394-407 and 702-740: api_status and handle_root list the registry
\* under the guard and return
listing(k) ==
    /\ inflight[k].op \in {"status", "root"}
    /\ inflight[k].pc = "locked"
    /\ resp' = Resp(inflight[k].op, 200, <<>>, <<>>, <<>>)
    /\ inflight' = [inflight EXCEPT ![k] = InflightIdle]
    /\ UNCHANGED <<fs, workspaces, threads, reg, reload_tx, sse, ws_tx,
                   wsconn, active, resolutions, issued>>

\* main.rs:342: state.inner.write().await is granted
unregister_acquire(k, id) ==
    /\ inflight[k].pc = "idle"
    /\ write_granted
    /\ inflight' = [inflight EXCEPT ![k] =
          [op |-> "unregister", pc |-> "locked", guard |-> "write",
           workspace_id |-> id, path |-> <<>>, full_path |-> <<>>]]
    /\ UNCHANGED <<fs, workspaces, threads, reg, resp, reload_tx, sse, ws_tx,
                   wsconn, active, resolutions, issued>>

\* main.rs:344-350: remove under the guard, respond
unregister_commit(k) ==
    /\ inflight[k].op = "unregister"
    /\ inflight[k].pc = "locked"
    /\ unregister_critical(inflight[k].workspace_id)
    /\ inflight' = [inflight EXCEPT ![k] = InflightIdle]
    /\ UNCHANGED <<fs, threads, reg, reload_tx, sse, ws_tx, wsconn, active,
                   resolutions, issued>>

-----------------------------------------------------------------------------
(* SpecPath: the registry and the view handler over a changing link farm.  *)

\* the register requests of SpecPath
PathInputs == { <<"docs">>, <<"docs", "sub">> }

NextPath ==
    \/ \E p \in PathInputs : api_register_begin(1, p)
    \/ api_register_locked(1)
    \/ \E id \in RequestIds, p \in ReqPaths : handle_view_path_internal(id, p)
    \/ \E l \in Links : \E t \in LinkTargets(l) : Retarget(l, t)

SpecPath == InitPath /\ [][NextPath]_vars

-----------------------------------------------------------------------------
(* tokio::sync::broadcast, as main.rs uses it.  A bus is the sequence of   *)
(* the values stored so far; only the last Capacity of them are retained.  *)
(* A receiver is the position of the next value it will read.              *)

\* a sender that waits until every receiver has a free slot
send_ready_when_room(log, cursors) ==
    \A n \in cursors : Len(log) - n + 1 < Capacity

\* Sender::send is synchronous: it never waits for a receiver
send_ready(log, cursors) == TRUE

\* Sender::send: the value is stored unless there is no receiver (the Err is
\* discarded by `let _ =`)
send(log, receivers, v) ==
    IF receivers = {} THEN log ELSE Append(log, v)

\* the oldest position still retained
oldest(log) == IF Len(log) > Capacity THEN Len(log) - Capacity + 1 ELSE 1

\* a receiver that never notices that its slot was overwritten
recv_kind_unchecked(log, next) ==
    IF next <= Len(log) THEN "ok" ELSE "pending"

\* Receiver::recv: Lagged once the next position is overwritten, a value when
\* there is one, otherwise the task stays suspended
recv_kind(log, next) ==
    IF next < oldest(log) THEN "lagged"
    ELSE IF next <= Len(log) THEN "ok"
    ELSE "pending"

\* the position whose value sits in the ring slot of position `next`: the
\* newest position stored so far that shares the slot
slot(log, next) ==
    CHOOSE k \in 1 .. Len(log) :
        /\ k % Capacity = next % Capacity
        /\ \A j \in 1 .. Len(log) : j % Capacity = next % Capacity => j <= k

\* a bus that replays what it still retains to a new receiver
subscribe_replaying(log) == oldest(log)

\* Sender::subscribe: the new receiver sees only later values
subscribe(log) == Len(log) + 1

-----------------------------------------------------------------------------
(* The watcher thread of api_register (main.rs:293-315).                   *)

Threads == 1 .. Len(threads)

\* the events PollWatcher may deliver for a watched directory: a change of
\* one file below it, a change of all of them at once, or an error
WatchEvents(dir) ==
    LET below == {q \in Files : starts_with(q, dir)}
    IN  {[ok |-> TRUE, paths |-> {p}] : p \in below}
        \cup {[ok |-> TRUE, paths |-> below]}
        \cup {[ok |-> FALSE, paths |-> {}]}

\* a filter that lets every event through
is_any(event) == TRUE

\* main.rs:304-306
is_md(event) == \E p \in event.paths : extension(p) = "md"

ReloadCursors == {sse[s].next : s \in ReloadReceivers}

\* a thread that reaches its loop whatever became of its initialization
spawned(th) == TRUE

\* main.rs:296-301: the loop is reached only past both initialization checks
in_loop(th) == th.pc = "loop"

\* main.rs:294-299: PollWatcher::new and watch succeed
watcher_start(t) ==
    /\ threads[t].pc = "init"
    /\ threads' = [threads EXCEPT ![t].pc = "loop"]
    /\ UNCHANGED <<fs, workspaces, reg, resp, reload_tx, sse, ws_tx, wsconn,
                   active, resolutions, issued,
                   inflight>>

\* a thread that takes its workspace out of the registry when its
\* initialization fails
watcher_init_fail_unregisters(t) ==
    /\ threads[t].pc = "init"
    /\ threads' = [threads EXCEPT ![t].pc = "exit"]
    /\ workspaces' = remove(workspaces, threads[t].watch_id)
    /\ UNCHANGED <<fs, reg, resp, reload_tx, sse, ws_tx, wsconn, active,
                   resolutions, issued, inflight>>

\* main.rs:296-299: PollWatcher::new or watch fails, the thread returns
watcher_init_fail(t) ==
    /\ threads[t].pc = "init"
    /\ threads' = [threads EXCEPT ![t].pc = "exit"]
    /\ UNCHANGED <<fs, workspaces, reg, resp, reload_tx, sse, ws_tx, wsconn,
                   active, resolutions, issued,
                   inflight>>

\* main.rs:301-311: one turn of the loop.  rx.recv() cannot fail: the sender
\* is owned by `watcher`, a local of this same thread, so the arm at line 312
\* is never taken and the loop has no exit.
watcher_event(t, event) ==
    /\ in_loop(threads[t])
    /\ IF event.ok /\ is_md(event)
       THEN /\ Len(reload_tx) < MaxReloadLog
            /\ send_ready(reload_tx, ReloadCursors)
            /\ reload_tx' = send(reload_tx, ReloadReceivers, threads[t].watch_id)
       ELSE UNCHANGED reload_tx
    /\ UNCHANGED <<fs, workspaces, threads, reg, resp, sse, ws_tx, wsconn,
                   active, resolutions, issued,
                   inflight>>

-----------------------------------------------------------------------------
(* handle_reload (main.rs:637-659)                                         *)

Streams == 1 .. Len(sse)

\* a stream that forwards every value it receives
matches_any(id, ws_id) == TRUE

\* main.rs:648
matches(id, ws_id) == id = ws_id

\* main.rs:641-642: subscribe, remember the workspace id
handle_reload(workspace_id) ==
    /\ Len(sse) < MaxSse
    /\ sse' = Append(sse, [ws_id |-> workspace_id,
                           next |-> subscribe(reload_tx),
                           frames |-> <<>>])
    /\ UNCHANGED <<fs, workspaces, threads, reg, resp, reload_tx, ws_tx,
                   wsconn, active, resolutions, issued,
                   inflight>>

\* main.rs:645-655: one turn of the stream's loop
handle_reload_recv(s) ==
    /\ LET kind == recv_kind(reload_tx, sse[s].next)
       IN  /\ kind # "pending"
           /\ IF kind = "lagged"
              THEN sse' = [sse EXCEPT ![s].next = oldest(reload_tx)]
              ELSE LET id == reload_tx[sse[s].next]
                   IN  sse' = [sse EXCEPT
                           ![s].next = @ + 1,
                           ![s].frames =
                               IF matches(id, sse[s].ws_id)
                               THEN Append(@, sse[s].next) ELSE @]
    /\ UNCHANGED <<fs, workspaces, threads, reg, resp, reload_tx, ws_tx,
                   wsconn, active, resolutions, issued,
                   inflight>>

-----------------------------------------------------------------------------
(* Spec: registry, watcher threads, ReloadBus and its SSE streams.  The     *)
(* watchers here initialize; SpecWatch has the ones that fail to.          *)

\* the register requests of Spec: one handler at a time
WatchedInputs == { <<"docs">>, <<"w">> }

Next ==
    \/ \E p \in WatchedInputs : api_register_begin(1, p)
    \/ api_register_locked(1)
    \/ api_unregister(generate_workspace_id(<<"docs">>))
    \/ \E t \in Threads : watcher_start(t)
    \/ \E t \in Threads : \E e \in WatchEvents(threads[t].watch_dir) :
           watcher_event(t, e)
    \/ \E id \in AllIds : handle_reload(id)
    \/ \E s \in Streams : handle_reload_recv(s)

Spec == Init /\ [][Next]_vars

-----------------------------------------------------------------------------
(* SpecWatch: two workspaces, their watchers and the lookups of them.      *)

\* the register requests of SpecWatch
SoftInputs == { <<"docs">>, <<"docs", "sub">> }

\* GET /view/{id}
RootRequest == [slashes |-> 0, segs |-> <<>>]

NextWatch ==
    \/ \E p \in SoftInputs : api_register_begin(1, p)
    \/ api_register_locked(1)
    \/ \E t \in Threads : watcher_start(t)
    \/ \E t \in Threads : watcher_init_fail(t)
    \/ \E t \in Threads : \E e \in WatchEvents(threads[t].watch_dir) :
           watcher_event(t, e)
    \/ \E id \in AllIds : handle_reload(id)
    \/ \E id \in AllIds : handle_view_path_internal(id, RootRequest)

SpecWatch == Init /\ [][NextWatch]_vars

-----------------------------------------------------------------------------
(* SpecLag: two workspaces publishing on the one ReloadBus, with streams   *)
(* that keep reading: the runtime polls a stream whose recv() is ready.    *)

NextLag ==
    \/ \E p \in SoftInputs : api_register_begin(1, p)
    \/ api_register_locked(1)
    \/ \E t \in Threads : watcher_start(t)
    \/ \E t \in Threads : \E e \in WatchEvents(threads[t].watch_dir) :
           watcher_event(t, e)
    \/ \E id \in AllIds : handle_reload(id)
    \/ \E s \in Streams : handle_reload_recv(s)

StreamsKeepReading ==
    \A s \in 1 .. MaxSse : WF_vars(s \in Streams /\ handle_reload_recv(s))

SpecLag == Init /\ [][NextLag]_vars /\ StreamsKeepReading

-----------------------------------------------------------------------------
(* WsCommand and the handlers that publish on CommandBus.                  *)

Cmd(type, workspace_id, file_path, url, percent) ==
    [type |-> type, workspace_id |-> workspace_id, file_path |-> file_path,
     url |-> url, percent |-> percent]

Focus(workspace_id, file_path) == Cmd("focus", workspace_id, file_path, <<>>, 0)
Navigate(url) == Cmd("navigate", <<>>, <<>>, url, 0)
Scroll(percent) == Cmd("scroll", <<>>, <<>>, <<>>, percent)

\* format!("/view/{}/{}", id, relative_str)
view_url(id, relative) == <<"view", id, relative>>

\* paths given to /api/active
ActiveInputs ==
    { <<"w", "sub", "b.md">>, <<"etc", "passwd">>, <<"gone">> }

\* percents given to /api/remote/scroll
Percents == { 50, 250 }

CmdCursors == {wsconn[c].next : c \in CmdReceivers}

\* a prefix test that accepts every workspace
contains_always(f, root_dir, canonical_path) == TRUE

\* main.rs:366-367: the workspace root, canonicalized again, is a prefix of
\* the canonical input
contains(f, root_dir, canonical_path) ==
    LET workspace_canonical == canonicalize(f, root_dir)
    IN  /\ workspace_canonical.some
        /\ starts_with(canonical_path, workspace_canonical.path)

\* Navigate first, Focus second
commands_swapped(id, relative) ==
    <<Navigate(view_url(id, relative)), Focus(id, relative)>>

\* main.rs:374-378: the two commands of one resolution, in sending order
commands(id, relative) ==
    <<Focus(id, relative), Navigate(view_url(id, relative))>>

\* main.rs:358-377: canonicalize; under the read lock take the first
\* workspace in map order (any order) that contains the path; send the first
\* command
api_active_begin(h, p) ==
    /\ active[h].pc = "idle"
    /\ canonicalize(fs, p).some => read_granted
    /\ LET c == canonicalize(fs, p)
           hits == {id \in DOMAIN workspaces :
                      contains(fs, workspaces[id].root_dir, c.path)}
       IN  IF ~c.some
           THEN /\ resp' = Resp("active", 400, <<>>, <<>>, p)
                /\ UNCHANGED <<active, ws_tx>>
           ELSE IF hits = {}
           THEN /\ resp' = Resp("active", 404, <<>>, <<>>, p)
                /\ UNCHANGED <<active, ws_tx>>
           ELSE \E id \in hits :
                  LET root == canonicalize(fs, workspaces[id].root_dir).path
                      relative == IF starts_with(c.path, root)
                                  THEN strip_prefix(c.path, root)
                                  ELSE c.path
                  IN  /\ Len(ws_tx) < MaxCmdLog
                      /\ send_ready(ws_tx, CmdCursors)
                      /\ ws_tx' = send(ws_tx, CmdReceivers,
                                       commands(id, relative)[1])
                      /\ active' = [active EXCEPT ![h] =
                            [pc |-> "second", input |-> p, id |-> id,
                             relative |-> relative,
                             first_at |-> IF CmdReceivers = {} THEN 0
                                          ELSE Len(ws_tx) + 1]]
                      /\ UNCHANGED resp
    /\ UNCHANGED <<fs, workspaces, threads, reg, reload_tx, sse, wsconn,
                   resolutions, issued,
                   inflight>>

\* where the command of the given type went, of the two positions
PositionOf(type, log, a, b) ==
    IF a # 0 /\ log[a].type = type THEN a
    ELSE IF b # 0 /\ log[b].type = type THEN b
    ELSE 0

\* main.rs:378-383: send the second command, release the lock, respond
api_active_end(h) ==
    /\ active[h].pc = "second"
    /\ Len(ws_tx) < MaxCmdLog
    /\ send_ready(ws_tx, CmdCursors)
    /\ LET id == active[h].id
           relative == active[h].relative
           second_at == IF CmdReceivers = {} THEN 0 ELSE Len(ws_tx) + 1
       IN  /\ ws_tx' = send(ws_tx, CmdReceivers, commands(id, relative)[2])
           /\ resp' = Resp("active", 200, id, view_url(id, relative),
                           active[h].input)
           /\ resolutions' = resolutions \cup
                 {<<PositionOf("focus", ws_tx', active[h].first_at, second_at),
                    PositionOf("navigate", ws_tx', active[h].first_at,
                               second_at)>>}
    /\ active' = [active EXCEPT ![h] = ActiveIdle]
    /\ UNCHANGED <<fs, workspaces, threads, reg, reload_tx, sse, wsconn,
                   issued,
                   inflight>>

\* main.rs:411-417
api_scroll(percent) ==
    /\ Len(ws_tx) < MaxCmdLog
    /\ send_ready(ws_tx, CmdCursors)
    /\ ws_tx' = send(ws_tx, CmdReceivers, Scroll(percent))
    /\ resp' = Resp("scroll", 200, <<>>, <<>>, <<>>)
    /\ UNCHANGED <<fs, workspaces, threads, reg, reload_tx, sse, wsconn,
                   active, resolutions, issued,
                   inflight>>

-----------------------------------------------------------------------------
(* handle_ws_connection (main.rs:665-697)                                  *)

Conns == 1 .. Len(wsconn)

\* main.rs:666-691: split the socket, subscribe, spawn send_task and
\* recv_task; the handler then waits in select!
handle_ws_connection ==
    /\ Len(wsconn) < MaxWs
    /\ wsconn' = Append(wsconn,
          [next |-> subscribe(ws_tx),
           received |-> <<>>,
           client |-> "open",
           send_task |-> "running",
           recv_task |-> "running",
           handler |-> "select"])
    /\ UNCHANGED <<fs, workspaces, threads, reg, resp, reload_tx, sse, ws_tx,
                   active, resolutions, issued,
                   inflight>>

\* main.rs:670-682: one turn of send_task.  It owns ws_rx: the subscription
\* lives exactly as long as the task.  A send to a closed socket fails.
send_task_turn(c) ==
    /\ wsconn[c].send_task = "running"
    /\ LET kind == recv_kind(ws_tx, wsconn[c].next)
       IN  /\ kind # "pending"
           /\ IF kind = "lagged"
              THEN wsconn' = [wsconn EXCEPT ![c].next = oldest(ws_tx)]
              ELSE IF wsconn[c].client = "closed"
              THEN wsconn' = [wsconn EXCEPT ![c].next = @ + 1,
                                            ![c].send_task = "done"]
              ELSE wsconn' = [wsconn EXCEPT
                      ![c].next = @ + 1,
                      ![c].received = Append(@, slot(ws_tx, wsconn[c].next))]
    /\ UNCHANGED <<fs, workspaces, threads, reg, resp, reload_tx, sse, ws_tx,
                   active, resolutions, issued,
                   inflight>>

\* the browser sends Close or drops the connection
client_close(c) ==
    /\ wsconn[c].client = "open"
    /\ wsconn' = [wsconn EXCEPT ![c].client = "closed"]
    /\ UNCHANGED <<fs, workspaces, threads, reg, resp, reload_tx, sse, ws_tx,
                   active, resolutions, issued,
                   inflight>>

\* main.rs:685-691: recv_task sees Close, an error or the end of the stream
recv_task_end(c) ==
    /\ wsconn[c].recv_task = "running"
    /\ wsconn[c].client = "closed"
    /\ wsconn' = [wsconn EXCEPT ![c].recv_task = "done"]
    /\ UNCHANGED <<fs, workspaces, threads, reg, resp, reload_tx, sse, ws_tx,
                   active, resolutions, issued,
                   inflight>>

\* main.rs:693-697: select! returns when either task has finished and the
\* handler returns; both JoinHandles are dropped, which detaches the other
\* task and does not cancel it
select_returns(c) ==
    /\ wsconn[c].handler = "select"
    /\ wsconn[c].send_task = "done" \/ wsconn[c].recv_task = "done"
    /\ wsconn' = [wsconn EXCEPT ![c].handler = "returned"]
    /\ UNCHANGED <<fs, workspaces, threads, reg, resp, reload_tx, sse, ws_tx,
                   active, resolutions, issued,
                   inflight>>

-----------------------------------------------------------------------------
(* SpecCmd: the registry, CommandBus and its WebSocket connections.        *)

\* the register requests of SpecCmd
CmdInputs == { <<"docs">> }

\* the path given to /api/active in SpecCmd
CmdActiveInputs == { <<"w", "sub", "b.md">> }

NextCmd ==
    \/ \E p \in CmdInputs : api_register_begin(1, p)
    \/ api_register_locked(1)
    \/ \E h \in ActiveHandlers, p \in CmdActiveInputs :
           api_active_begin(h, p)
    \/ \E h \in ActiveHandlers : api_active_end(h)
    \/ handle_ws_connection
    \/ \E c \in Conns : send_task_turn(c)

SpecCmd == Init /\ [][NextCmd]_vars

-----------------------------------------------------------------------------
(* SpecActive: active-file resolution over nested workspaces.              *)

NextActive ==
    \/ \E p \in SoftInputs : api_register_begin(1, p)
    \/ api_register_locked(1)
    \/ \E h \in ActiveHandlers, p \in ActiveInputs : api_active_begin(h, p)
    \/ \E h \in ActiveHandlers : api_active_end(h)
    \/ handle_ws_connection

SpecActive == Init /\ [][NextActive]_vars

-----------------------------------------------------------------------------
(* SpecFifo: scroll commands flowing to connections that stay open.        *)

NextFifo ==
    \/ \E n \in Percents : api_scroll(n)
    \/ handle_ws_connection
    \/ \E c \in Conns : send_task_turn(c)

SpecFifo == Init /\ [][NextFifo]_vars

-----------------------------------------------------------------------------
(* SpecFrame: watcher threads running beside a register call that holds    *)
(* the write guard and beside traffic on CommandBus.                       *)

NextFrame ==
    \/ api_register_begin(1, <<"docs">>)
    \/ api_register_acquire(1)
    \/ api_register_commit(1)
    \/ \E t \in Threads : watcher_start(t)
    \/ \E t \in Threads : watcher_init_fail(t)
    \/ \E t \in Threads : \E e \in WatchEvents(threads[t].watch_dir) :
           watcher_event(t, e)
    \/ handle_reload(generate_workspace_id(<<"docs">>))
    \/ handle_ws_connection
    \/ api_scroll(50)

SpecFrame == Init /\ [][NextFrame]_vars

-----------------------------------------------------------------------------
(* SpecWs: the life of WebSocket connections while scroll commands flow.   *)

NextWs ==
    \/ \E n \in Percents : api_scroll(n)
    \/ handle_ws_connection
    \/ \E c \in Conns : send_task_turn(c)
    \/ \E c \in Conns : client_close(c)
    \/ \E c \in Conns : recv_task_end(c)
    \/ \E c \in Conns : select_returns(c)

SpecWs == Init /\ [][NextWs]_vars


-----------------------------------------------------------------------------
(* SpecReg: concurrent register and unregister requests.                   *)

NextReg ==
    \/ \E h \in RegHandlers, p \in RegisterInputs : api_register_begin(h, p)
    \/ \E h \in RegHandlers : api_register_locked(h)
    \/ \E id \in RequestIds : api_unregister(id)

SpecReg == Init /\ [][NextReg]_vars

-----------------------------------------------------------------------------
(* SpecLock: every handler that takes the registry lock, guard by guard.   *)

\* the path asked of /view and /raw in SpecLock
LockPaths == { [slashes |-> 0, segs |-> <<"a.md">>] }

NextLock ==
    \/ api_register_begin(1, <<"docs">>)
    \/ api_register_acquire(1)
    \/ api_register_commit(1)
    \/ \E k \in Inflight :
           unregister_acquire(k, generate_workspace_id(<<"docs">>))
    \/ \E k \in Inflight : unregister_commit(k)
    \/ \E k \in Inflight, op \in ReadOps, p \in LockPaths :
           read_acquire(k, op, generate_workspace_id(<<"docs">>), p)
    \/ \E k \in Inflight : view_lookup(k)
    \/ \E k \in Inflight : view_io(k)
    \/ \E k \in Inflight : listing(k)
    \/ api_active_begin(1, <<"docs", "a.md">>)
    \/ api_active_end(1)

SpecLock == Init /\ [][NextLock]_vars

-----------------------------------------------------------------------------
(* C1: path confinement.                                                   *)

\* p is root itself or lies below it
Within(p, root) == \E k \in 0 .. Len(p) : SubSeq(p, 1, k) = root

\* p names an existing entry and no component of it is a link or ".."
IsCanonical(f, p) == canonicalize(f, p) = Some(p)

\* C1: for every root R and every requested path p, validate_path(R, p) is
\* None or a canonical path equal to or below the canonical form of R; and a
\* view answered with 200 serves a path inside its workspace's root.
C1_PathConfinement ==
    /\ \A R \in Dirs \cup Links : \A p \in ReqPaths :
          LET r == validate_path(fs, R, p)
              rc == canonicalize(fs, R)
          IN  r.some => /\ rc.some
                        /\ IsCanonical(fs, r.path)
                        /\ Within(r.path, rc.path)
    /\ (resp.op = "view" /\ resp.status = 200) =>
          /\ resp.id \in DOMAIN workspaces
          /\ Within(resp.path, workspaces[resp.id].root_dir)

\* a registered workspace was asked for lnk/passwd while lnk points to /etc,
\* and the request was refused
C1_Witness ==
    /\ resp.op = "view"
    /\ resp.status = 404
    /\ resp.id \in DOMAIN workspaces
    /\ workspaces[resp.id].root_dir = <<"docs">>
    /\ resp.input = [slashes |-> 0, segs |-> <<"lnk", "passwd">>]
    /\ fs[<<"docs", "lnk">>] = <<"etc">>

-----------------------------------------------------------------------------
(* C2, C4: the watcher of an unregistered workspace.                       *)

WasRegistered(i) == \E r \in issued : r[2] = i

\* C2 (as claimed): once unregister(id) has succeeded, no event carrying id
\* is stored on ReloadBus while id stays unregistered.
C2_NoReloadAfterUnregister ==
    [][\A i \in AllIds :
          (WasRegistered(i) /\ i \notin DOMAIN workspaces)
              => reload_tx' # Append(reload_tx, i)]_vars

\* C4 (as claimed): never two watcher threads in their loop for one id.
C4_OneRunningWatcherPerId ==
    \A t1 \in Threads, t2 \in Threads :
        (/\ threads[t1].pc = "loop"
         /\ threads[t2].pc = "loop"
         /\ threads[t1].watch_id = threads[t2].watch_id) => t1 = t2

-----------------------------------------------------------------------------
(* C3: register is idempotent.                                             *)

RegisterCommits(h) == reg[h].pc = "lock" /\ reg'[h].pc = "idle"

\* each registry entry owns exactly one of the threads spawned for its id
\* since it was inserted
OneWatcherPerEntry ==
    \A i \in DOMAIN workspaces :
        {t \in Threads : /\ threads[t].watch_id = i
                         /\ t >= workspaces[i].watcher_handle}
            = {workspaces[i].watcher_handle}

\* every register call for one canonical root was answered with one id
SameIdPerRoot == \A a \in issued, b \in issued : a[1] = b[1] => a[2] = b[2]

\* C3: a register call, alone or overlapping another, answers with the id of
\* its canonical root; that id then has one registry entry holding one
\* watcher; a call that finds the id present changes neither the registry
\* nor the threads.
C3_RegisterIdempotent ==
    [][\A h \in RegHandlers : RegisterCommits(h) =>
          LET id == reg[h].workspace_id
          IN  /\ resp'.status = 200 /\ resp'.id = id
              /\ id \in DOMAIN workspaces'
              /\ (id \in DOMAIN workspaces =>
                     workspaces' = workspaces /\ threads' = threads)
              /\ (id \notin DOMAIN workspaces =>
                     Len(threads') = Len(threads) + 1)
              /\ OneWatcherPerEntry'
              /\ SameIdPerRoot']_vars

\* two calls for /docs, one by its name and one through the link /w, are both
\* waiting for the lock, or the second finds the entry of the first
C3_Witness ==
    /\ \E r \in issued : r[1] = <<"docs">>
    /\ resp.op = "register" /\ resp.status = 200 /\ resp.id = <<"docs", 1>>
    /\ \E h \in RegHandlers :
          /\ reg[h].pc = "lock"
          /\ reg[h].canonical_path = <<"docs">>
          /\ reg[h].workspace_id \in DOMAIN workspaces
          /\ workspaces[reg[h].workspace_id].root_dir = <<"docs">>

-----------------------------------------------------------------------------
(* C5: a stream emits a frame only for its own workspace id.               *)

\* C5: every frame a stream emitted answers an event carrying its own id.
C5_ReloadFiltered ==
    \A s \in Streams : \A k \in 1 .. Len(sse[s].frames) :
        reload_tx[sse[s].frames[k]] = sse[s].ws_id

\* a stream of another id has consumed an event of docs-1 and emitted
\* nothing, while a stream of docs-1 emitted a frame for it
C5_Witness ==
    \E a \in Streams, b \in Streams :
        /\ sse[a].ws_id = <<"docs", 1>>
        /\ sse[a].frames # <<>>
        /\ sse[b].ws_id # <<"docs", 1>>
        /\ sse[b].next > sse[a].frames[1]
        /\ sse[b].frames = <<>>

-----------------------------------------------------------------------------
(* C8: a reader that stops reading blocks nobody.                          *)

MdEvent == [ok |-> TRUE, paths |-> {<<"docs", "a.md">>}]

-----------------------------------------------------------------------------
(* C9: unregistering an unknown id.                                        *)

\* C9: an unregister request for an id that is not in the registry is
\* answered 404 and changes nothing else.
C9_UnregisterUnknown ==
    [][(/\ resp' # resp
        /\ resp'.op = "unregister"
        /\ resp'.id \notin DOMAIN workspaces)
          => /\ resp'.status = 404
             /\ UNCHANGED <<fs, workspaces, threads, reg, reload_tx, sse,
                            ws_tx, wsconn, active, resolutions, issued>>]_vars

\* docs-0 was refused while docs-1 is registered
C9_Witness ==
    /\ resp.op = "unregister"
    /\ resp.status = 404
    /\ resp.id = <<"docs", 0>>
    /\ <<"docs", 1>> \in DOMAIN workspaces

-----------------------------------------------------------------------------
(* C6: Focus is received before Navigate.                                  *)

Received(c) == {wsconn[c].received[k] : k \in 1 .. Len(wsconn[c].received)}

IndexIn(seq, v) == CHOOSE k \in 1 .. Len(seq) : seq[k] = v

\* C6: a connection that received both commands of one resolution received
\* the Focus first.
C6_FocusBeforeNavigate ==
    \A c \in Conns : \A r \in resolutions :
        (r[1] \in Received(c) /\ r[2] \in Received(c))
            => IndexIn(wsconn[c].received, r[1])
                 < IndexIn(wsconn[c].received, r[2])

\* a connection has been handed both commands of a resolution
C6_Witness ==
    \E c \in Conns : \E r \in resolutions :
        /\ r[1] \in Received(c)
        /\ r[2] \in Received(c)
        /\ ws_tx[r[1]].type = "focus"
        /\ ws_tx[r[2]].type = "navigate"

-----------------------------------------------------------------------------
(* C7: a closed WebSocket connection and its subscription.                 *)

\* C7 (as claimed): there are never more live CommandBus subscriptions than
\* connections whose handler is still running.
C7_NoOrphanSubscription ==
    Cardinality(CmdReceivers)
        <= Cardinality({c \in Conns : wsconn[c].handler = "select"})

-----------------------------------------------------------------------------
(* C10: a path that is in no workspace.                                    *)

\* no registered workspace's canonical root is a prefix of path p
InNoWorkspace(p) ==
    \A id \in DOMAIN workspaces :
        LET root == canonicalize(fs, workspaces[id].root_dir)
        IN  ~(root.some /\ Within(p, root.path))

\* C10: an active-file request whose canonical path lies in no registered
\* workspace is answered 404, stores nothing on CommandBus and leaves the
\* registry as it was.
C10_NotInAnyWorkspace ==
    [][(/\ resp' # resp
        /\ resp'.op = "active"
        /\ canonicalize(fs, resp'.input).some
        /\ InNoWorkspace(canonicalize(fs, resp'.input).path))
          => /\ resp'.status = 404
             /\ UNCHANGED <<ws_tx, workspaces, threads, resolutions>>]_vars

\* /etc/passwd was refused while /docs is registered and a WebSocket client
\* is subscribed
C10_Witness ==
    /\ resp.op = "active"
    /\ resp.status = 404
    /\ resp.input = <<"etc", "passwd">>
    /\ <<"docs", 1>> \in DOMAIN workspaces
    /\ CmdReceivers # {}

-----------------------------------------------------------------------------
(* C11: register with an invalid path.                                     *)

\* the input does not canonicalize, or canonicalizes to something that is
\* not a directory
InvalidRoot(p) ==
    LET c == canonicalize(fs, p)
    IN  ~c.some \/ c.path \notin Dirs

\* C11: a register call whose input path cannot be canonicalized or is not a
\* directory is answered 400 and changes nothing but the response: no
\* registry entry, no watcher thread, and the handler never asks for the lock.
C11_RegisterInvalidPath ==
    [][\A h \in RegHandlers : \A p \in RegisterInputs :
          (InvalidRoot(p) /\ api_register_begin(h, p))
              => /\ resp' = Resp("register", 400, <<>>, <<>>, <<>>)
                 /\ UNCHANGED <<fs, workspaces, threads, reg, reload_tx, sse,
                                ws_tx, wsconn, active, resolutions,
                                issued>>]_vars

\* a register call was refused while /docs is registered with its watcher
C11_Witness ==
    /\ resp = Resp("register", 400, <<>>, <<>>, <<>>)
    /\ <<"docs", 1>> \in DOMAIN workspaces
    /\ Len(threads) = 1
    /\ \A h \in RegHandlers : reg[h].pc = "idle"

-----------------------------------------------------------------------------
(* C12: a watcher that fails at initialization.                            *)

\* every thread spawned for id i has returned
AllExited(i) ==
    \A u \in Threads : threads[u].watch_id = i => threads[u].pc = "exit"

\* C12: the step in which a watcher fails at initialization changes neither
\* the registry nor the response already given to register; the thread stays
\* stopped; while every thread of an id is stopped no event carrying that id
\* is stored on ReloadBus; and a lookup of the workspace still succeeds.
C12_WatcherInitFailureIsSoft ==
    [][\A t \in Threads :
          /\ (threads[t].pc = "init" /\ threads'[t].pc = "exit")
                => /\ UNCHANGED <<workspaces, resp, reload_tx, issued>>
                   /\ threads[t].watch_id \in DOMAIN workspaces
          /\ threads[t].pc = "exit"
                => /\ threads'[t].pc = "exit"
                   /\ threads[t].watch_id \in DOMAIN workspaces'
                   /\ AllExited(threads[t].watch_id)
                         => reload_tx' # Append(reload_tx, threads[t].watch_id)
                   /\ (/\ resp' # resp
                       /\ resp'.op = "view"
                       /\ resp'.id = threads[t].watch_id)
                         => resp'.status = 200]_vars

\* the watcher of docs-1 failed at initialization; afterwards the watcher of
\* sub-2 published to a stream of docs-1 and docs-1 was served by /view
C12_Witness ==
    /\ \E t \in Threads :
          threads[t].watch_id = <<"docs", 1>> /\ threads[t].pc = "exit"
    /\ \E s \in Streams : sse[s].ws_id = <<"docs", 1>>
    /\ reload_tx # <<>>
    /\ resp.op = "view" /\ resp.status = 200 /\ resp.id = <<"docs", 1>>

-----------------------------------------------------------------------------
(* C13: the percent of a Scroll command.                                   *)

\* C13 (as claimed): every Scroll command stored on CommandBus carries a
\* percent between 0 and 100.
C13_ScrollPercentInRange ==
    \A k \in 1 .. Len(ws_tx) :
        ws_tx[k].type = "scroll" => ws_tx[k].percent \in 0 .. 100

-----------------------------------------------------------------------------
(* C14: one id, one root.                                                  *)

\* C14 (as claimed): when a register call for canonical root R is answered
\* with id i, the registry entry of i has root_dir R.
C14_IdDeterminesRoot ==
    [][\A h \in RegHandlers : RegisterCommits(h) =>
          /\ reg[h].workspace_id \in DOMAIN workspaces'
          /\ workspaces'[reg[h].workspace_id].root_dir
                = reg[h].canonical_path]_vars

-----------------------------------------------------------------------------
(* C15: what a lagging stream loses.                                       *)

\* the event at position k carries the id of stream s and s has not yet read
\* past it
Awaits(s, k) ==
    /\ s \in Streams
    /\ k <= Len(reload_tx)
    /\ reload_tx[k] = sse[s].ws_id
    /\ sse[s].next <= k

\* stream s has emitted a frame for an event at position k or later
Emitted(s, k) ==
    /\ s \in Streams
    /\ \E j \in 1 .. Len(sse[s].frames) : sse[s].frames[j] >= k

\* C15 (as claimed): a stream that keeps reading emits a frame for every
\* event of its workspace or for a later one, so in particular after the last
\* such event, whatever else was published while it was behind.
C15_LagDropsOnlySuperseded ==
    \A s \in 1 .. MaxSse : \A k \in 1 .. MaxReloadLog :
        Awaits(s, k) ~> Emitted(s, k)

-----------------------------------------------------------------------------
(* C16: what a successful active-file resolution selects and publishes.    *)

ActiveFirstSend(h) == active[h].pc = "idle" /\ active'[h].pc = "second"
ActiveSecondSend(h) == active[h].pc = "second" /\ active'[h].pc = "idle"

\* C16: a resolution selects a registered workspace whose canonical root is
\* a prefix of the canonical input; it sends one Focus carrying that id and
\* the input relative to that root, then one Navigate carrying the url
\* /view/{id}/{relative}, and answers with the same id and url.  Each send
\* stores its one command when a client is subscribed and nothing otherwise.
C16_ActivePublishesFocusThenNavigate ==
    [][\A h \in ActiveHandlers :
          /\ ActiveFirstSend(h) =>
                LET id == active'[h].id
                    rel == active'[h].relative
                    c == canonicalize(fs, active'[h].input)
                    root == IF id \in DOMAIN workspaces
                            THEN canonicalize(fs, workspaces[id].root_dir)
                            ELSE None
                IN  /\ c.some /\ root.some
                    /\ root.path \o rel = c.path
                    /\ ws_tx' = IF CmdReceivers = {} THEN ws_tx
                                ELSE Append(ws_tx,
                                        Cmd("focus", id, rel, <<>>, 0))
                    /\ resp' = resp
          /\ ActiveSecondSend(h) =>
                LET id == active[h].id
                    url == <<"view", id, active[h].relative>>
                IN  /\ ws_tx' = IF CmdReceivers = {} THEN ws_tx
                                ELSE Append(ws_tx,
                                        Cmd("navigate", <<>>, <<>>, url, 0))
                    /\ resp'.status = 200
                    /\ resp'.id = id
                    /\ resp'.path = url
                    /\ id \in DOMAIN workspaces]_vars

\* /w/sub/b.md was resolved in the nested workspace sub-2 while docs-1 is
\* registered too, and a client was sent Focus{sub-2, b.md} then Navigate
C16_Witness ==
    /\ resp.op = "active" /\ resp.status = 200
    /\ resp.id = <<"sub", 2>>
    /\ resp.path = <<"view", <<"sub", 2>>, <<"b.md">>>>
    /\ <<"docs", 1>> \in DOMAIN workspaces
    /\ Len(ws_tx) >= 2
    /\ ws_tx[Len(ws_tx) - 1] = Focus(<<"sub", 2>>, <<"b.md">>)
    /\ ws_tx[Len(ws_tx)] = Navigate(resp.path)

-----------------------------------------------------------------------------
(* C17: commands are received in the order they were published.           *)

\* C17: CommandBus only grows at its end, so positions are publish order;
\* and the positions a connection has received are strictly increasing: what
\* it receives is an order-preserving subsequence of what was published, for
\* one publisher and for all of them, lag or not.
C17_PerPublisherFifo ==
    [][/\ \/ ws_tx' = ws_tx
          \/ \E n \in Percents : ws_tx' = Append(ws_tx, Scroll(n))
       /\ \A c \in 1 .. Len(wsconn') :
             \A i \in 1 .. Len(wsconn'[c].received) :
                \A j \in 1 .. Len(wsconn'[c].received) :
                   i < j => wsconn'[c].received[i] < wsconn'[c].received[j]]_vars

\* the first connection, subscribed before anything was published, fell a
\* ring behind, lost the first command and then received the next two
C17_Witness ==
    /\ Len(wsconn) >= 1
    /\ Len(ws_tx) = 3
    /\ wsconn[1].received = <<2, 3>>
    /\ ws_tx[2] # ws_tx[3]

-----------------------------------------------------------------------------
(* C18: what a watcher publishes.                                          *)

TouchesMd(e) == \E p \in e.paths : extension(p) = "md"

\* C18: a turn of a watcher's loop stores the id of the workspace the thread
\* was started for when the event is a change touching a path with the md
\* extension (and a stream is subscribed), and stores nothing for any other
\* event; and nothing else ever stores a value on ReloadBus.
C18_WatcherPublishesOnlyMarkdown ==
    [][/\ \A t \in Threads : \A e \in WatchEvents(threads[t].watch_dir) :
             watcher_event(t, e) =>
                IF e.ok /\ TouchesMd(e) /\ ReloadReceivers # {}
                THEN /\ reload_tx' = Append(reload_tx,
                            generate_workspace_id(threads[t].watch_dir))
                     /\ threads[t].watch_id \in DOMAIN workspaces
                     /\ workspaces[threads[t].watch_id].watcher_handle = t
                ELSE reload_tx' = reload_tx
       /\ reload_tx' # reload_tx =>
             \E t \in Threads :
                /\ threads[t].pc = "loop"
                /\ \E e \in WatchEvents(threads[t].watch_dir) :
                      e.ok /\ TouchesMd(e)
                /\ reload_tx' = Append(reload_tx, threads[t].watch_id)]_vars

\* the watchers of docs-1 and sub-2 are both in their loop and each has
\* published its own id to a subscribed stream
C18_Witness ==
    /\ Len(threads) = 2
    /\ \A t \in Threads : threads[t].pc = "loop"
    /\ sse # <<>>
    /\ \E i \in 1 .. Len(reload_tx) : reload_tx[i] = <<"docs", 1>>
    /\ \E i \in 1 .. Len(reload_tx) : reload_tx[i] = <<"sub", 2>>

-----------------------------------------------------------------------------
(* C19: the discipline of the registry lock.                               *)

\* at most one write guard, and never together with a read guard
LockDiscipline == WriteGuards <= 1 /\ (WriteGuards = 1 => ReadGuards = 0)

RegisterCriticalStep(h) == reg[h].pc = "held" /\ reg'[h].pc = "idle"

UnregisterCriticalStep(k) ==
    inflight[k].guard = "write" /\ inflight'[k].guard = "none"

\* C19: guards are held by any number of readers or by one writer, never by
\* a writer with a reader or a second writer; the registry changes only in
\* the step of the handler holding the write guard; and
\* register's contains-check, watcher start and insert are that one step: the
\* entry inserted is the one found missing, with the watcher just started.
C19_RegistryLockDiscipline ==
    [][/\ LockDiscipline'
       /\ workspaces' # workspaces =>
             \/ \E h \in RegHandlers : RegisterCriticalStep(h)
             \/ \E k \in Inflight : UnregisterCriticalStep(k)
       /\ \A h \in RegHandlers : RegisterCriticalStep(h) =>
             LET id == reg[h].workspace_id
             IN  IF id \in DOMAIN workspaces
                 THEN workspaces' = workspaces /\ threads' = threads
                 ELSE /\ threads' = Append(threads,
                             [watch_id |-> id,
                              watch_dir |-> reg[h].canonical_path,
                              pc |-> "init"])
                      /\ DOMAIN workspaces' = DOMAIN workspaces \cup {id}
                      /\ workspaces'[id].watcher_handle = Len(threads')
                      /\ workspaces'[id].root_dir = reg[h].canonical_path]_vars

\* a view handler and a status handler hold read guards together while a
\* register call waits for the write guard and /docs is already registered
C19_Witness ==
    /\ \E k \in Inflight : inflight[k].op = "view" /\ inflight[k].guard = "read"
    /\ \E k \in Inflight :
          inflight[k].op = "status" /\ inflight[k].guard = "read"
    /\ \E h \in RegHandlers : reg[h].pc = "lock"
    /\ <<"docs", 1>> \in DOMAIN workspaces

-----------------------------------------------------------------------------
(* C20: no file contents are read under the registry lock.                 *)

\* the handlers reading a directory listing or file contents
InIo == {k \in Inflight : inflight[k].pc = "io"}

\* C20: a view or raw handler that reads a listing or file contents holds no
\* guard and works on the full_path it copied out under the guard; so while
\* the only handlers in flight are reading files, a register or unregister
\* call that asks for the write guard gets it.
C20_NoLockAcrossFileIo ==
    /\ \A k \in InIo :
          /\ inflight[k].op \in {"view", "raw"}
          /\ inflight[k].guard = "none"
          /\ inflight[k].full_path \in Dirs \cup Files
    /\ (/\ InIo # {}
        /\ \A k \in Inflight : inflight[k].pc \in {"idle", "io"}
        /\ \A h \in ActiveHandlers : active[h].pc = "idle")
          => /\ \A h \in RegHandlers :
                   (reg[h].pc = "lock" /\ \A g \in RegHandlers : reg[g].pc # "held")
                      => ENABLED api_register_acquire(h)
             /\ \A k \in Inflight :
                   (inflight[k].pc = "idle"
                      /\ \A g \in RegHandlers : reg[g].pc # "held")
                      => ENABLED unregister_acquire(k, <<"docs", 1>>)

\* /docs/a.md is being read by a view handler while docs-1 has already been
\* unregistered by a call that was granted the write guard in between
C20_Witness ==
    /\ \E k \in InIo :
          /\ inflight[k].op = "view"
          /\ inflight[k].full_path = <<"docs", "a.md">>
    /\ resp.op = "unregister" /\ resp.status = 200
    /\ <<"docs", 1>> \notin DOMAIN workspaces

-----------------------------------------------------------------------------
(* C21: the frame of a watcher's steps.                                    *)

\* a step of some watcher thread: one of the spawned threads moves on, or a
\* value is stored on ReloadBus
WatcherStep ==
    \/ /\ Len(threads') = Len(threads)
       /\ threads' # threads
    \/ reload_tx' # reload_tx

\* C21: a step of a watcher thread leaves the registry, CommandBus, every
\* handler and every guard of the registry lock as they were, and ReloadBus
\* either as it was or longer by the id of one watcher in its loop; and a
\* watcher never waits for the registry lock: it can take its step while a
\* register call holds the write guard.
C21_WatcherFrame ==
    [][/\ WatcherStep =>
             /\ UNCHANGED <<fs, workspaces, ws_tx, wsconn, reg, resp, active,
                            inflight, sse, resolutions, issued>>
             /\ ReadGuards' = ReadGuards /\ WriteGuards' = WriteGuards
             /\ \/ reload_tx' = reload_tx
                \/ \E t \in Threads :
                      /\ threads[t].pc = "loop"
                      /\ threads' = threads
                      /\ reload_tx' = Append(reload_tx, threads[t].watch_id)
       /\ \A t \in Threads :
             /\ threads[t].pc = "init" => ENABLED watcher_start(t)
             /\ (threads[t].pc = "loop" /\ Len(reload_tx) < MaxReloadLog)
                   => ENABLED watcher_event(t, MdEvent)]_vars

\* the watcher of docs-1 has published to a subscribed stream and can do so
\* again while a register call holds the write guard and CommandBus carries
\* a command
C21_Witness ==
    /\ reg[1].pc = "held"
    /\ WriteGuards = 1
    /\ \E t \in Threads :
          threads[t].watch_id = <<"docs", 1>> /\ threads[t].pc = "loop"
    /\ reload_tx # <<>>
    /\ Len(reload_tx) < MaxReloadLog
    /\ ws_tx # <<>>
    /\ <<"docs", 1>> \in DOMAIN workspaces

-----------------------------------------------------------------------------
(* C22: commands are not retained for late subscribers.                    *)

\* C22: a connection starts with nothing received and its cursor behind
\* everything published so far; afterwards its cursor never moves back and
\* whatever it receives sits at or after its cursor.  So every command a
\* connection receives was published after the connection subscribed.
C22_CommandsNotRetained ==
    [][/\ Len(wsconn') > Len(wsconn) =>
             /\ Len(wsconn') = Len(wsconn) + 1
             /\ wsconn'[Len(wsconn')].received = <<>>
             /\ wsconn'[Len(wsconn')].next > Len(ws_tx)
       /\ \A c \in Conns :
             /\ wsconn'[c].next >= wsconn[c].next
             /\ \/ wsconn'[c].received = wsconn[c].received
                \/ \E p \in wsconn[c].next .. Len(ws_tx) :
                      wsconn'[c].received = Append(wsconn[c].received, p)]_vars

\* the second connection subscribed after the first command was published:
\* the first connection received both commands, the second only the later
C22_Witness ==
    /\ Len(wsconn) = 2
    /\ Len(ws_tx) = 2
    /\ wsconn[1].received = <<1, 2>>
    /\ wsconn[2].received = <<2>>

====
